---- MODULE Spec2Model ----
(***************************************************************************)
(* Model of packages/webapi/server.js: the /chat handler, the lazy PDF     *)
(* loader and chunker, the lexical retriever and the per-session memory.   *)
(*                                                                         *)
(* A JavaScript string is a sequence of one-character strings.  The        *)
(* handler is an async function: the code between two awaits runs without  *)
(* interruption, so every action below is one such run of one request.     *)
(***************************************************************************)
EXTENDS Integers, Sequences, FiniteSets, TLC

\* ------------------------------------------------------------------------
\* Bounds of the model
\* ------------------------------------------------------------------------
\* number of /chat requests of the concurrent specification
MaxReq == 2
\* number of words of a document of the chunking specification
MaxWords == 3
\* number of keyword blocks of a document of the retrieval specification
MaxBlocks == 4

\* ------------------------------------------------------------------------
\* Strings
\* ------------------------------------------------------------------------
\* the characters the regular expression class \s matches (of the alphabet used)
WhiteSpace == {" ", "\n"}

\* String.prototype.toLowerCase on one character of the alphabet used
LowerChar(c) ==
  CASE c = "P" -> "p"
    [] c = "L" -> "l"
    [] OTHER -> c

toLowerCase(s) == [i \in DOMAIN s |-> LowerChar(s[i])]

\* the k-th smallest element of a finite set of integers, as a sequence
SortedSeq(S) ==
  [k \in 1..Cardinality(S) |-> CHOOSE x \in S : Cardinality({y \in S : y < x}) = k - 1]

\* s.split(/\s+/): the pieces of s around its maximal runs of white space;
\* a leading or trailing run gives an empty first or last piece, "" gives [""]
SplitWS(s) ==
  LET n == Len(s)
      isWS(i) == s[i] \in WhiteSpace
      st == SortedSeq({i \in 1..n : isWS(i) /\ (i = 1 \/ ~isWS(i - 1))})
      en == SortedSeq({i \in 1..n : isWS(i) /\ (i = n \/ ~isWS(i + 1))})
      r == Len(st)
  IN  [k \in 1..(r + 1) |->
         SubSeq(s, IF k = 1 THEN 1 ELSE en[k - 1] + 1,
                   IF k = r + 1 THEN n ELSE st[k] - 1)]

RECURSIVE JoinWith(_, _)
\* Array.prototype.join(sep)
JoinWith(parts, sep) ==
  IF parts = <<>> THEN <<>>
  ELSE IF Len(parts) = 1 THEN parts[1]
  ELSE parts[1] \o sep \o JoinWith(Tail(parts), sep)

\* n copies of the character c
Rep(c, n) == [i \in 1..n |-> c]

\* ------------------------------------------------------------------------
\* PDF loading and chunking
\* ------------------------------------------------------------------------
CHUNK_SIZE == 800

\* pdfText before the first load
Null == <<"null">>
\* fs.existsSync(pdfPath) is false
NoFile == <<"nofile">>
\* what loadPDF returns when the file does not exist
PdfNotFound == <<"PDF not found.">>
\* loadPDF has not returned to the request
NotReturned == <<"pending">>

RECURSIVE ChunkLoopNoSeparator(_, _, _, _)
\* variant of ChunkLoop: the size test forgets the separating space
ChunkLoopNoSeparator(words, i, currentChunk, chunks) ==
  IF i > Len(words) THEN [currentChunk |-> currentChunk, chunks |-> chunks]
  ELSE LET word == words[i] IN
    IF Len(currentChunk) + Len(word) <= CHUNK_SIZE
    THEN ChunkLoopNoSeparator(words, i + 1,
                   currentChunk \o (IF currentChunk # <<>> THEN <<" ">> ELSE <<>>) \o word,
                   chunks)
    ELSE ChunkLoopNoSeparator(words, i + 1, word, Append(chunks, currentChunk))

RECURSIVE ChunkLoopDropsWord(_, _, _, _)
\* variant of ChunkLoop: the word that did not fit is not carried over
ChunkLoopDropsWord(words, i, currentChunk, chunks) ==
  IF i > Len(words) THEN [currentChunk |-> currentChunk, chunks |-> chunks]
  ELSE LET word == words[i] IN
    IF Len(currentChunk) + 1 + Len(word) <= CHUNK_SIZE
    THEN ChunkLoopDropsWord(words, i + 1,
                   currentChunk \o (IF currentChunk # <<>> THEN <<" ">> ELSE <<>>) \o word,
                   chunks)
    ELSE ChunkLoopDropsWord(words, i + 1, <<>>, Append(chunks, currentChunk))

RECURSIVE ChunkLoop(_, _, _, _)
\* the for loop of loadPDF over words[i..], pushing onto chunks
ChunkLoop(words, i, currentChunk, chunks) ==
  IF i > Len(words) THEN [currentChunk |-> currentChunk, chunks |-> chunks]
  ELSE LET word == words[i] IN
    IF Len(currentChunk) + 1 + Len(word) <= CHUNK_SIZE
    THEN ChunkLoop(words, i + 1,
                   currentChunk \o (IF currentChunk # <<>> THEN <<" ">> ELSE <<>>) \o word,
                   chunks)
    ELSE ChunkLoop(words, i + 1, word, Append(chunks, currentChunk))

\* lines 69-81: the chunk list after chunking text onto the list chunks
ChunkText(text, chunks) ==
  LET words == SplitWS(text)
      end == ChunkLoop(words, 1, <<>>, chunks)
  IN  IF end.currentChunk # <<>> THEN Append(end.chunks, end.currentChunk)
      ELSE end.chunks

\* variant of PdfLoaded: the cached text is never used
PdfLoadedNever(text) == FALSE

\* JavaScript truthiness of pdfText (null and "" are falsy)
PdfLoaded(text) == text # Null /\ text # <<>>

\* ------------------------------------------------------------------------
\* Retrieval
\* ------------------------------------------------------------------------
\* the characters term.replace(/[.,?!;:()"']/g, "") removes
Punctuation == {".", ",", "?", "!", ";", ":", "(", ")", "\"", "'"}

StripPunctuation(term) == SelectSeq(term, LAMBDA c : c \notin Punctuation)

\* variant of QueryTerms: the filter keeps the terms of 3 characters
QueryTermsOffByOne(query) ==
  LET words == SplitWS(toLowerCase(query))
      long == SelectSeq(words, LAMBDA term : Len(term) >= 3)
  IN  [i \in DOMAIN long |-> StripPunctuation(long[i])]

\* lines 87-91: the terms of a query
QueryTerms(query) ==
  LET words == SplitWS(toLowerCase(query))
      long == SelectSeq(words, LAMBDA term : Len(term) > 3)
  IN  [i \in DOMAIN long |-> StripPunctuation(long[i])]

\* new RegExp(term, "gi") throws a SyntaxError: over the alphabet used, exactly
\* when the term opens a character class with "[" (no "]" closes it)
RegExpThrows(term) == \E i \in DOMAIN term : term[i] = "["

RECURSIVE ScanMatches(_, _, _)
\* the global match scans left to right and resumes after each match
ScanMatches(starts, from, len) ==
  LET rest == {m \in starts : m >= from} IN
  IF rest = {} THEN 0
  ELSE LET m == CHOOSE x \in rest : \A y \in rest : x <= y
       IN  1 + ScanMatches(starts, m + len, len)

\* (chunkLower.match(new RegExp(term, "gi")) || []).length for a term of literal
\* characters; the empty pattern matches once at each of the Len(s) + 1 positions
MatchCount(term, s) ==
  IF term = <<>> THEN Len(s) + 1
  ELSE LET len == Len(term)
           starts == {i \in 1..(Len(s) - len + 1) : SubSeq(s, i, i + len - 1) = term}
       IN  ScanMatches(starts, 1, len)

RECURSIVE SumCounts(_, _, _)
SumCounts(terms, i, s) ==
  IF i > Len(terms) THEN 0
  ELSE MatchCount(terms[i], s) + SumCounts(terms, i + 1, s)

\* lines 96-103: the score of one chunk
Score(chunk, terms) == SumCounts(terms, 1, toLowerCase(chunk))

\* variant of ComesBefore: equal scores change places
ComesBeforeOrTie(a, b) == a.score >= b.score

\* the comparator of line 108 puts a before b
ComesBefore(a, b) == a.score > b.score

RECURSIVE InsertSorted(_, _)
\* item goes behind every element that does not have to come after it
InsertSorted(sorted, item) ==
  IF sorted = <<>> THEN <<item>>
  ELSE IF ComesBefore(item, sorted[Len(sorted)])
       THEN Append(InsertSorted(SubSeq(sorted, 1, Len(sorted) - 1), item),
                   sorted[Len(sorted)])
       ELSE Append(sorted, item)

RECURSIVE SortItems(_, _)
\* Array.prototype.sort with the comparator: a stable sort
SortItems(items, n) ==
  IF n = 0 THEN <<>> ELSE InsertSorted(SortItems(items, n - 1), items[n])

\* slice(0, 3)
TopK == 3

\* lines 106-110
RankChunks(scoredChunks) ==
  LET kept == SelectSeq(scoredChunks, LAMBDA item : item.score > 0)
      sorted == SortItems(kept, Len(kept))
      top == SubSeq(sorted, 1, IF Len(sorted) < TopK THEN Len(sorted) ELSE TopK)
  IN  [i \in DOMAIN top |-> top[i].chunk]

\* retrieveRelevantContent throws (the RegExp constructor runs per chunk)
RetrieveThrows(query, chunks) ==
  chunks # <<>> /\ \E i \in DOMAIN QueryTerms(query) : RegExpThrows(QueryTerms(query)[i])

\* retrieveRelevantContent(query) on the chunk list chunks, when it returns
retrieveRelevantContent(query, chunks) ==
  LET queryTerms == QueryTerms(query) IN
  IF Len(queryTerms) = 0 THEN <<>>
  ELSE RankChunks([i \in DOMAIN chunks |->
                     [chunk |-> chunks[i], score |-> Score(chunks[i], queryTerms)]])

\* ------------------------------------------------------------------------
\* The /chat handler
\* ------------------------------------------------------------------------
VARIABLES
  pdfFile,          \* the text pdf-parse extracts from the file at pdfPath, or NoFile
  pdfText,          \* let pdfText
  pdfChunks,        \* let pdfChunks
  sessionMemories,  \* const sessionMemories: session id -> memory
  req               \* the requests: the handler's locals and where it stands

vars == <<pdfFile, pdfText, pdfChunks, sessionMemories, req>>

Req == 1..MaxReq

SessionIds == {"default", "s1"}

\* a string value of the request body
Str(s) == [type |-> "string", val |-> s]
\* a field the request body does not have
Undefined == [type |-> "undefined", val |-> <<>>]
\* a number of the request body
Num(n) == [type |-> "number", val |-> <<n>>]

\* JavaScript truthiness of a body value
Truthy(v) ==
  CASE v.type = "string" -> v.val # <<>>
    [] v.type = "number" -> v.val # <<0>>
    [] OTHER -> FALSE

\* variant of InvalidMessage: the empty string is let through
InvalidMessageNoEmptyCheck(v) == v.type # "string"

\* line 121: the message is rejected
InvalidMessage(v) == ~Truthy(v) \/ v.type # "string"

\* the fixed texts of the system messages and of the failure reply, each one symbol
ExcerptsHead == <<"You must ONLY use the information provided below ... EXCERPTS ---\n">>
ExcerptsTail == <<"\n--- END OF EXCERPTS ---">>
RefusalPrompt == <<"The excerpts do not contain relevant information for this question ...">>
GenericPrompt == <<"You are a helpful and knowledgeable assistant ...">>
ErrorReply == <<"Sorry, I encountered an error. Please try again.">>

\* variant of systemMessage: with RAG the excerpts prompt is used even without sources
systemMessageAlwaysExcerpts(useRAG, sources) ==
  [role |-> "system",
   content |-> IF useRAG
               THEN ExcerptsHead \o JoinWith(sources, <<"\n", "\n">>) \o ExcerptsTail
               ELSE GenericPrompt,
   by |-> 0]

\* lines 144-156
systemMessage(useRAG, sources) ==
  [role |-> "system",
   content |-> IF useRAG
               THEN IF Len(sources) > 0
                    THEN ExcerptsHead \o JoinWith(sources, <<"\n", "\n">>) \o ExcerptsTail
                    ELSE RefusalPrompt
               ELSE GenericPrompt,
   by |-> 0]

\* a message of a chat history; by is the request whose saveContext created it
HistoryMessage(role, content, r) == [role |-> role, content |-> content, by |-> r]

\* lines 159-163
ComposeMessages(system, chat_history, userMessage) ==
  <<system>> \o chat_history \o <<[role |-> "user", content |-> userMessage, by |-> 0]>>

\* variant of saveContext: the turn replaces the history
saveContextReplace(chatHistory, input, output, r) ==
  <<[role |-> "user", content |-> input, by |-> r],
    [role |-> "assistant", content |-> output, by |-> r]>>

\* memory.saveContext({input}, {output}) by request r on the history chatHistory
saveContext(chatHistory, input, output, r) ==
  chatHistory \o <<HistoryMessage("user", input, r), HistoryMessage("assistant", output, r)>>

NoMemory == [created |-> FALSE, chatHistory |-> <<>>]

\* variant of getSessionMemory: a new memory is stored at every call
getSessionMemoryAlwaysNew(memories, sessionId) ==
  [memories EXCEPT ![sessionId] = [created |-> TRUE, chatHistory |-> <<>>]]

\* lines 43-53: the session map after getSessionMemory(sessionId)
getSessionMemory(memories, sessionId) ==
  IF ~memories[sessionId].created
  THEN [memories EXCEPT ![sessionId] = [created |-> TRUE, chatHistory |-> <<>>]]
  ELSE memories

NoResponse == [status |-> 0, reply |-> <<>>, sources |-> <<>>]

\* a request the server has not received yet
IdleRequest ==
  [pc |-> "idle", userMessage |-> Undefined, useRAG |-> TRUE, sessionId |-> "default",
   mode |-> "basic", memoryVars |-> <<>>, sources |-> <<>>, messages |-> <<>>,
   response |-> <<>>, res |-> NoResponse, pdfResult |-> NotReturned]

\* lines 169-175: the catch block
Failed(rq) ==
  [rq EXCEPT !.pc = "done", !.res = [status |-> 500, reply |-> ErrorReply, sources |-> <<>>]]

\* lines 134-165, up to the await of the agent or of the chat model; the history
\* spread at line 161 is the array loadMemoryVariables returned: its content as
\* loaded, or as it is now if the memory returns its own array
Dispatch(rq, chat_history) ==
  IF rq.mode = "agent"
  THEN [rq EXCEPT !.pc = "agent"]
  ELSE [rq EXCEPT !.pc = "invoke",
                  !.messages = ComposeMessages(systemMessage(rq.useRAG, rq.sources),
                                               chat_history, rq.userMessage.val)]

HistoryAtCompose(rq) == {rq.memoryVars, sessionMemories[rq.sessionId].chatHistory}

\* lines 115-126: the body is read and checked, the memory is fetched
Receive(r, Messages, RagFlags, Ids, Modes) ==
  /\ req[r].pc = "idle"
  /\ IF r = 1 THEN TRUE ELSE req[r - 1].pc # "idle"
  /\ \E message \in Messages, rag \in RagFlags, id \in Ids, m \in Modes :
       LET useRAG == IF rag = Undefined THEN TRUE ELSE Truthy(rag)
           sessionId == IF Truthy(id) THEN id.val[1] ELSE "default"
           mode == IF Truthy(m) THEN m.val[1] ELSE "basic"
       IN  IF InvalidMessage(message)
           THEN /\ req' = [req EXCEPT ![r] =
                            [@ EXCEPT !.pc = "done", !.userMessage = message,
                                      !.res = [status |-> 400, reply |-> <<>>,
                                               sources |-> <<>>]]]
                /\ UNCHANGED sessionMemories
           ELSE /\ req' = [req EXCEPT ![r] =
                            [@ EXCEPT !.pc = "loadMemoryVariables",
                                      !.userMessage = message, !.useRAG = useRAG,
                                      !.sessionId = sessionId, !.mode = mode]]
                /\ sessionMemories' = getSessionMemory(sessionMemories, sessionId)
  /\ UNCHANGED <<pdfFile, pdfText, pdfChunks>>

\* variant of AfterLoadMemory: loadPDF reads the file without testing that it
\* exists, and readFileSync throws
AfterLoadMemoryNoExistsCheck(r) ==
  /\ req[r].pc = "loadMemoryVariables"
  /\ LET rq == [req[r] EXCEPT !.memoryVars = sessionMemories[req[r].sessionId].chatHistory,
                              !.sources = <<>>]
     IN  IF rq.useRAG
         THEN req' = [req EXCEPT ![r] =
                       IF PdfLoaded(pdfText)
                       THEN [rq EXCEPT !.pc = "loadPDF", !.pdfResult = pdfText]
                       ELSE IF pdfFile = NoFile
                       THEN Failed(rq)
                       ELSE [rq EXCEPT !.pc = "pdfParse"]]
         ELSE req' = [req EXCEPT ![r] = Dispatch(rq, rq.memoryVars)]
  /\ UNCHANGED <<pdfFile, pdfText, pdfChunks, sessionMemories>>

\* lines 126-130 and 60-66 (or 134-165 without RAG): the history is loaded; with
\* RAG loadPDF runs to its return or to the await of pdfParse
AfterLoadMemory(r) ==
  /\ req[r].pc = "loadMemoryVariables"
  /\ LET rq == [req[r] EXCEPT !.memoryVars = sessionMemories[req[r].sessionId].chatHistory,
                              !.sources = <<>>]
     IN  IF rq.useRAG
         THEN req' = [req EXCEPT ![r] =
                       IF PdfLoaded(pdfText)
                       THEN [rq EXCEPT !.pc = "loadPDF", !.pdfResult = pdfText]
                       ELSE IF pdfFile = NoFile
                       THEN [rq EXCEPT !.pc = "loadPDF", !.pdfResult = PdfNotFound]
                       ELSE [rq EXCEPT !.pc = "pdfParse"]]
         ELSE req' = [req EXCEPT ![r] = Dispatch(rq, rq.memoryVars)]
  /\ UNCHANGED <<pdfFile, pdfText, pdfChunks, sessionMemories>>

\* lines 66-83: pdfParse resolved, the text is stored and chunked
PdfParsed(r) ==
  /\ req[r].pc = "pdfParse"
  /\ pdfText' = pdfFile
  /\ pdfChunks' = ChunkText(pdfFile, pdfChunks)
  /\ req' = [req EXCEPT ![r] = [@ EXCEPT !.pc = "loadPDF", !.pdfResult = pdfFile]]
  /\ UNCHANGED <<pdfFile, sessionMemories>>

\* lines 130-165: loadPDF resolved, the chunks are retrieved
AfterLoadPDF(r) ==
  /\ req[r].pc = "loadPDF"
  /\ IF RetrieveThrows(req[r].userMessage.val, pdfChunks)
     THEN req' = [req EXCEPT ![r] = Failed(@)]
     ELSE \E chat_history \in HistoryAtCompose(req[r]) :
            req' = [req EXCEPT ![r] =
                     Dispatch([req[r] EXCEPT !.sources =
                                 retrieveRelevantContent(req[r].userMessage.val, pdfChunks)],
                              chat_history)]
  /\ UNCHANGED <<pdfFile, pdfText, pdfChunks, sessionMemories>>

\* variant of AgentReturns: the reply carries the retrieved sources
AgentReturnsSources(r, Replies) ==
  /\ req[r].pc = "agent"
  /\ \E reply \in Replies :
       req' = [req EXCEPT ![r] =
                [@ EXCEPT !.pc = "done",
                          !.res = [status |-> 200, reply |-> reply,
                                   sources |-> req[r].sources]]]
  /\ UNCHANGED <<pdfFile, pdfText, pdfChunks, sessionMemories>>

\* lines 136-140: the agent replied
AgentReturns(r, Replies) ==
  /\ req[r].pc = "agent"
  /\ \E reply \in Replies :
       req' = [req EXCEPT ![r] =
                [@ EXCEPT !.pc = "done",
                          !.res = [status |-> 200, reply |-> reply, sources |-> <<>>]]]
  /\ UNCHANGED <<pdfFile, pdfText, pdfChunks, sessionMemories>>

\* line 136 throws
AgentThrows(r) ==
  /\ req[r].pc = "agent"
  /\ req' = [req EXCEPT ![r] = Failed(@)]
  /\ UNCHANGED <<pdfFile, pdfText, pdfChunks, sessionMemories>>

\* variant of ModelReturns: the reply is kept but the turn is not saved
ModelReturnsNoSave(r, Replies) ==
  /\ req[r].pc = "invoke"
  /\ \E content \in Replies :
       req' = [req EXCEPT ![r] = [@ EXCEPT !.pc = "saveContext", !.response = content]]
  /\ UNCHANGED <<pdfFile, pdfText, pdfChunks, sessionMemories>>

\* lines 165-166: the chat model replied, the turn is saved
ModelReturns(r, Replies) ==
  /\ req[r].pc = "invoke"
  /\ \E content \in Replies :
       /\ req' = [req EXCEPT ![r] = [@ EXCEPT !.pc = "saveContext", !.response = content]]
       /\ sessionMemories' =
            [sessionMemories EXCEPT ![req[r].sessionId].chatHistory =
               saveContext(@, req[r].userMessage.val, content, r)]
  /\ UNCHANGED <<pdfFile, pdfText, pdfChunks>>

\* variant of ModelThrows: the user message was put into the history before the call
ModelThrowsHalfSaved(r) ==
  /\ req[r].pc = "invoke"
  /\ req' = [req EXCEPT ![r] = Failed(@)]
  /\ sessionMemories' =
       [sessionMemories EXCEPT ![req[r].sessionId].chatHistory =
          Append(@, HistoryMessage("user", req[r].userMessage.val, r))]
  /\ UNCHANGED <<pdfFile, pdfText, pdfChunks>>

\* line 165 throws
ModelThrows(r) ==
  /\ req[r].pc = "invoke"
  /\ req' = [req EXCEPT ![r] = Failed(@)]
  /\ UNCHANGED <<pdfFile, pdfText, pdfChunks, sessionMemories>>

\* line 168: saveContext resolved, the reply is sent
Respond(r) ==
  /\ req[r].pc = "saveContext"
  /\ req' = [req EXCEPT ![r] =
              [@ EXCEPT !.pc = "done",
                        !.res = [status |-> 200, reply |-> req[r].response,
                                 sources |-> req[r].sources]]]
  /\ UNCHANGED <<pdfFile, pdfText, pdfChunks, sessionMemories>>

\* ------------------------------------------------------------------------
\* The server under concurrent requests
\* ------------------------------------------------------------------------
\* "plan", "is it ok"
QPlan == <<"p", "l", "a", "n">>
QShort == <<"i", "s", " ", "i", "t", " ", "o", "k">>
\* "Plan leave"
DocPlan == <<"P", "l", "a", "n", " ", "l", "e", "a", "v", "e">>

Files == {NoFile, DocPlan}
Messages == {Undefined, Num(5), Str(<<>>), Str(QPlan), Str(QShort)}
RagFlags == {Undefined, Str(<<"true">>), Num(0)}
Ids == {Undefined, Str(<<"s1">>)}
Modes == {Undefined, Str(<<"agent">>)}
ModelReplies == {<<"o", "k">>}
AgentReplies == {<<"h", "i">>}

Init ==
  /\ pdfFile \in Files
  /\ pdfText = Null
  /\ pdfChunks = <<>>
  /\ sessionMemories = [id \in SessionIds |-> NoMemory]
  /\ req = [r \in Req |-> IdleRequest]

Next ==
  \E r \in Req :
    \/ Receive(r, Messages, RagFlags, Ids, Modes)
    \/ AfterLoadMemory(r)
    \/ PdfParsed(r)
    \/ AfterLoadPDF(r)
    \/ AgentReturns(r, AgentReplies)
    \/ AgentThrows(r)
    \/ ModelReturns(r, ModelReplies)
    \/ ModelThrows(r)
    \/ Respond(r)

Spec == Init /\ [][Next]_vars
\* ------------------------------------------------------------------------
\* One request with RAG on a document built from words around CHUNK_SIZE
\* ------------------------------------------------------------------------
\* words of 1, CHUNK_SIZE/2 - 1, CHUNK_SIZE/2, CHUNK_SIZE - 1, CHUNK_SIZE and
\* CHUNK_SIZE + 1 characters
ChunkWords ==
  {<<"a">>, Rep("b", CHUNK_SIZE \div 2 - 1), Rep("c", CHUNK_SIZE \div 2),
   Rep("d", CHUNK_SIZE - 1), Rep("e", CHUNK_SIZE), Rep("f", CHUNK_SIZE + 1)}

\* the documents of up to MaxWords words, with or without white space around them
ChunkFiles ==
  {lead \o JoinWith(ws, sep) \o trail :
     <<lead, trail, sep>> \in {<<>>, <<"\n">>} \X {<<>>, <<" ">>} \X {<<" ">>, <<" ", "\n">>},
     ws \in UNION {[1..n -> ChunkWords] : n \in 0..MaxWords}}

InitChunk ==
  /\ pdfFile \in ChunkFiles
  /\ pdfText = Null
  /\ pdfChunks = <<>>
  /\ sessionMemories = [id \in SessionIds |-> NoMemory]
  /\ req = [r \in Req |-> IdleRequest]

NextChunk ==
  \/ Receive(1, {Str(QShort)}, {Undefined}, {Undefined}, {Undefined})
  \/ AfterLoadMemory(1)
  \/ PdfParsed(1)
  \/ AfterLoadPDF(1)
  \/ ModelReturns(1, ModelReplies)
  \/ ModelThrows(1)
  \/ Respond(1)

SpecChunk == InitChunk /\ [][NextChunk]_vars

\* ------------------------------------------------------------------------
\* One request with RAG on a document of several chunks with keywords
\* ------------------------------------------------------------------------
\* "plan", "Plan planning", "leave"
KeywordTexts ==
  {<<"p", "l", "a", "n">>,
   <<"P", "l", "a", "n", " ", "p", "l", "a", "n", "n", "i", "n", "g">>,
   <<"l", "e", "a", "v", "e">>}

\* the keywords and a word that fills the chunk up to CHUNK_SIZE
Block(text) == text \o <<" ">> \o Rep("x", CHUNK_SIZE - Len(text) - 1)

\* the documents of up to MaxBlocks blocks: each block becomes one chunk
RetrieveFiles ==
  {JoinWith([i \in DOMAIN ks |-> Block(ks[i])], <<" ">>) :
     ks \in UNION {[1..n -> KeywordTexts] : n \in 0..MaxBlocks}}

\* "plan", "What plan?", "leave plan", "is it ok", "pla ok", "????", "pl[n"
RetrieveQueries ==
  {QPlan,
   <<"W", "h", "a", "t", " ", "p", "l", "a", "n", "?">>,
   <<"l", "e", "a", "v", "e", " ", "p", "l", "a", "n">>,
   QShort,
   <<"p", "l", "a", " ", "o", "k">>,
   <<"?", "?", "?", "?">>,
   <<"p", "l", "[", "n">>}

InitRetrieve ==
  /\ pdfFile \in RetrieveFiles
  /\ pdfText = Null
  /\ pdfChunks = <<>>
  /\ sessionMemories = [id \in SessionIds |-> NoMemory]
  /\ req = [r \in Req |-> IdleRequest]

NextRetrieve ==
  \/ Receive(1, {Str(q) : q \in RetrieveQueries}, {Undefined, Num(0)}, {Undefined},
             {Undefined})
  \/ AfterLoadMemory(1)
  \/ PdfParsed(1)
  \/ AfterLoadPDF(1)
  \/ ModelReturns(1, ModelReplies)
  \/ ModelThrows(1)
  \/ Respond(1)

SpecRetrieve == InitRetrieve /\ [][NextRetrieve]_vars
\* ------------------------------------------------------------------------
\* Properties
\* ------------------------------------------------------------------------
\* the history of a session; empty while the session has no memory
History(id) == sessionMemories[id].chatHistory

\* where the messages created by request r stand in the histories
MessagesBy(r) ==
  {<<id, i>> \in SessionIds \X (1..(2 * MaxReq)) :
     i <= Len(History(id)) /\ History(id)[i].by = r}

IsPrefix(a, b) == Len(a) <= Len(b) /\ SubSeq(b, 1, Len(a)) = a

\* request r got a reply of the chat model
GotModelReply(r) ==
  \/ req[r].pc = "saveContext"
  \/ req[r].pc = "done" /\ req[r].res.status = 200 /\ req[r].mode # "agent"

\* C1: a request whose chat-model call or agent call throws ends with the 500
\* response in a step that changes no session's history, and no message of that
\* request is in any history then or later.
C1_FailedCallLeavesHistory ==
  [][\A r \in Req :
       /\ (req[r].pc \in {"invoke", "agent"} /\ req'[r].pc = "done")
            => (/\ req'[r].res.status \in {200, 500}
                /\ req'[r].res.status = 500 =>
                     \A id \in SessionIds :
                       sessionMemories'[id].chatHistory = sessionMemories[id].chatHistory)
       /\ (req'[r].pc = "done" /\ req'[r].res.status = 500)
            => \A id \in SessionIds :
                 \A i \in DOMAIN sessionMemories'[id].chatHistory :
                   sessionMemories'[id].chatHistory[i].by # r]_vars

\* a request's model call failed while its session already holds a turn
C1_Witness ==
  \E r \in Req :
    /\ req[r].pc = "done" /\ req[r].res.status = 500
    /\ req[r].messages # <<>>
    /\ History(req[r].sessionId) # <<>>

\* C2: each session's history is exactly one (user, assistant) pair for each
\* basic-mode request on that session that got a model reply, each pair holding
\* that request's message and reply; a step only ever appends to a history.
C2_Pairs ==
  \A id \in SessionIds :
    LET h == History(id)
        S == {r \in Req : GotModelReply(r) /\ req[r].sessionId = id}
    IN  /\ Len(h) = 2 * Cardinality(S)
        /\ \A r \in S : \E k \in 1..Cardinality(S) : h[2 * k].by = r
        /\ \A k \in 1..Cardinality(S) :
             LET r == h[2 * k].by IN
             /\ r \in S
             /\ h[2 * k - 1] = [role |-> "user", content |-> req[r].userMessage.val, by |-> r]
             /\ h[2 * k] = [role |-> "assistant", content |-> req[r].response, by |-> r]

C2_AppendOnly ==
  [](C2_Pairs) /\
  [][\A id \in SessionIds :
       IsPrefix(sessionMemories[id].chatHistory, sessionMemories'[id].chatHistory)]_vars

\* a session holds the turns of two requests
C2_Witness == \E id \in SessionIds : Len(History(id)) = 4

\* C3: of two requests whose turns are in one session's history, the one appended
\* later sent the earlier one's turn to the model.
C3_LaterRequestSawEarlierTurn ==
  \A id \in SessionIds : \A i, j \in DOMAIN History(id) :
    (i < j /\ History(id)[i].by # History(id)[j].by)
      => \E m \in DOMAIN req[History(id)[j].by].messages :
           req[History(id)[j].by].messages[m] = History(id)[i]

\* C4: the chunk list is empty or exactly the chunks of the document.
C4_ChunksLoadedOnce == pdfChunks = <<>> \/ pdfChunks = ChunkText(pdfFile, <<>>)

\* C5: an agent-mode request never composes a prompt for the chat model nor waits
\* for it, puts no message into any history, and when it succeeds its response
\* has no sources.
C5_AgentMode ==
  \A r \in Req :
    req[r].mode = "agent" =>
      /\ req[r].pc \notin {"invoke", "saveContext"}
      /\ req[r].messages = <<>>
      /\ MessagesBy(r) = {}
      /\ (req[r].pc = "done" /\ req[r].res.status = 200) => req[r].res.sources = <<>>

\* an agent-mode request succeeded although its retrieval found chunks
C5_Witness ==
  \E r \in Req :
    /\ req[r].mode = "agent" /\ req[r].pc = "done" /\ req[r].res.status = 200
    /\ req[r].useRAG /\ req[r].sources # <<>>

\* the message is missing, not a string or the empty string
NotANonEmptyString(v) == v.type # "string" \/ v.val = <<>>

\* C6: the step that receives a request whose message is missing, not a string or
\* empty ends it with the 400 response, without composing a prompt, and changes
\* neither the session memories nor the document text nor the chunk list.
C6_InvalidInput ==
  [][\A r \in Req :
       (req[r].pc = "idle" /\ req'[r].pc # "idle" /\ NotANonEmptyString(req'[r].userMessage))
         => /\ req'[r].pc = "done"
            /\ req'[r].res.status = 400
            /\ req'[r].messages = <<>>
            /\ sessionMemories' = sessionMemories
            /\ pdfText' = pdfText
            /\ pdfChunks' = pdfChunks]_vars

\* an empty message was rejected while another request was being handled
C6_Witness ==
  \E r, o \in Req :
    /\ req[r].pc = "done" /\ req[r].res.status = 400 /\ req[r].userMessage = Str(<<>>)
    /\ req[o].pc \notin {"idle", "done"}
\* retrieveRelevantContent has returned in request r
Retrieved(r) == req[r].useRAG /\ req[r].messages # <<>>

\* the score of every chunk for a query
Scores(query) ==
  LET terms == QueryTerms(query)
  IN  [i \in DOMAIN pdfChunks |-> Score(pdfChunks[i], terms)]

\* chunk a ranks before chunk b under the scores sc: the higher score, or the same
\* score and earlier in the document
RanksBefore(sc, a, b) == sc[a] > sc[b] \/ (sc[a] = sc[b] /\ a < b)

\* C7: the sources retrieved for a query are the first min(3, k) of the k chunks
\* with a score above 0, in the order of descending score, equal scores in
\* document order.
C7_TopThreeStable ==
  \A r \in Req :
    Retrieved(r) =>
      \A sc \in {Scores(req[r].userMessage.val)} :
      LET pos == {i \in DOMAIN pdfChunks : sc[i] > 0}
          res == req[r].sources
      IN  /\ Len(res) = IF Cardinality(pos) < 3 THEN Cardinality(pos) ELSE 3
          /\ \E idx \in [1..Len(res) -> pos] :
               /\ \A j \in 1..Len(res) : res[j] = pdfChunks[idx[j]]
               /\ \A j \in 1..(Len(res) - 1) : RanksBefore(sc, idx[j], idx[j + 1])
               /\ \A i \in pos \ {idx[j] : j \in 1..Len(res)} :
                    \A j \in 1..Len(res) : RanksBefore(sc, idx[j], i)

\* three sources were chosen among four or more matching chunks, two of the chosen
\* ones with equal scores, and the document order is not the ranking
C7_Witness ==
  \E r \in Req :
    /\ Retrieved(r)
    /\ Len(req[r].sources) = 3
    /\ req[r].sources # SubSeq(pdfChunks, 1, 3)
    /\ \E sc \in {Scores(req[r].userMessage.val)} :
       /\ Cardinality({i \in DOMAIN pdfChunks : sc[i] > 0}) >= 4
       /\ \E a, b \in DOMAIN pdfChunks :
            /\ sc[a] = sc[b] /\ sc[a] > 0
            /\ pdfChunks[a] # pdfChunks[b]
            /\ \E j, k \in 1..3 :
                 req[r].sources[j] = pdfChunks[a] /\ req[r].sources[k] = pdfChunks[b]

\* no 4 characters in a row of the query are free of white space
AllTokensShort(query) ==
  \A i \in 1..(Len(query) - 3) : \E j \in i..(i + 3) : query[j] \in WhiteSpace

\* the RAG request r has got past retrieveRelevantContent
PastRetrieval(r) ==
  req[r].useRAG /\ req[r].pc \in {"agent", "invoke", "saveContext", "done"}

\* C8: a request with RAG whose query has only tokens of at most 3 characters
\* retrieves nothing; in basic mode the system message it sends is the refusal
\* prompt and its response has no sources.
C8_ShortTokens ==
  \A r \in Req :
    (req[r].userMessage.type = "string" /\ req[r].userMessage.val # <<>>
       /\ AllTokensShort(req[r].userMessage.val) /\ PastRetrieval(r))
      => /\ req[r].sources = <<>>
         /\ retrieveRelevantContent(req[r].userMessage.val, pdfChunks) = <<>>
         /\ req[r].mode = "basic" =>
              /\ req[r].messages # <<>>
              /\ req[r].messages[1] = [role |-> "system", content |-> RefusalPrompt, by |-> 0]
              /\ req[r].pc = "done" /\ req[r].res.status = 200 => req[r].res.sources = <<>>

\* "pla ok" was answered from a document in which "pla" occurs
C8_Witness ==
  \E r \in Req :
    /\ req[r].pc = "done" /\ req[r].res.status = 200
    /\ req[r].userMessage.val = <<"p", "l", "a", " ", "o", "k">>
    /\ \E i \in DOMAIN pdfChunks : MatchCount(<<"p", "l", "a">>, toLowerCase(pdfChunks[i])) > 0

\* C9: a chunk is longer than CHUNK_SIZE only if it is one word, free of white
\* space.
C9_ChunkLength ==
  \A i \in DOMAIN pdfChunks :
    Len(pdfChunks[i]) > CHUNK_SIZE =>
      \A j \in DOMAIN pdfChunks[i] : pdfChunks[i][j] \notin WhiteSpace

\* the chunks hold a word longer than CHUNK_SIZE and a chunk of two words that is
\* exactly CHUNK_SIZE long
C9_Witness ==
  /\ \E i \in DOMAIN pdfChunks : Len(pdfChunks[i]) > CHUNK_SIZE
  /\ \E i \in DOMAIN pdfChunks :
       /\ Len(pdfChunks[i]) = CHUNK_SIZE
       /\ \E j \in DOMAIN pdfChunks[i] : pdfChunks[i][j] \in WhiteSpace

\* the pieces of a split that are not empty
NonEmpty(pieces) == SelectSeq(pieces, LAMBDA w : w # <<>>)

\* C10 as stated: the chunks joined by single spaces split into the pieces the
\* document splits into.
C10_SplitRoundTrip ==
  pdfText # Null => SplitWS(JoinWith(pdfChunks, <<" ">>)) = SplitWS(pdfText)

\* C10, amended: the chunks joined by single spaces hold the same non-empty words,
\* in the same order, as the document.
C10_WordsRoundTrip ==
  pdfText # Null =>
    NonEmpty(SplitWS(JoinWith(pdfChunks, <<" ">>))) = NonEmpty(SplitWS(pdfText))

\* a document of three words, one of them too long, was cut into several chunks
C10_Witness ==
  /\ pdfText # Null
  /\ Len(NonEmpty(SplitWS(pdfText))) = 3
  /\ Len(pdfChunks) >= 3
  /\ \E i \in DOMAIN pdfChunks : Len(pdfChunks[i]) > CHUNK_SIZE
\* C11: the messages a basic-mode request sends to the chat model are the system
\* message, the history the request loaded, in order, and its user message last;
\* no message of the request is in a history while the model call is pending.
C11_PromptFromLoadedHistory ==
  \A r \in Req :
    /\ req[r].messages # <<>> =>
         /\ req[r].messages[1].role = "system"
         /\ req[r].messages =
              <<req[r].messages[1]>> \o req[r].memoryVars
                \o <<[role |-> "user", content |-> req[r].userMessage.val, by |-> 0]>>
    /\ req[r].pc \in {"loadMemoryVariables", "pdfParse", "loadPDF", "invoke"} =>
         MessagesBy(r) = {}
\* up to three sources with a blank line between them
BlankLineJoined(src) ==
  CASE Len(src) = 1 -> src[1]
    [] Len(src) = 2 -> src[1] \o <<"\n", "\n">> \o src[2]
    [] Len(src) = 3 -> src[1] \o <<"\n", "\n">> \o src[2] \o <<"\n", "\n">> \o src[3]

\* C12: the system message of a basic-mode request is the generic prompt without
\* RAG (and then there are no sources), the excerpts prompt around the sources
\* joined by blank lines with RAG and sources, and the refusal prompt with RAG and
\* no sources.
C12_SystemMessage ==
  \A r \in Req :
    /\ (req[r].pc # "idle" /\ ~req[r].useRAG) =>
         req[r].sources = <<>> /\ req[r].res.sources = <<>>
    /\ req[r].messages # <<>> =>
         /\ req[r].mode = "basic"
         /\ req[r].messages[1].role = "system"
         /\ req[r].messages[1].content =
              IF ~req[r].useRAG THEN GenericPrompt
              ELSE IF req[r].sources = <<>> THEN RefusalPrompt
              ELSE ExcerptsHead \o BlankLineJoined(req[r].sources) \o ExcerptsTail

\* a prompt was composed around three sources
C12_Witness ==
  \E r \in Req : req[r].messages # <<>> /\ req[r].useRAG /\ Len(req[r].sources) = 3
\* C13: while the file does not exist the document stays unloaded and the chunk
\* list empty; loadPDF returns the sentinel to every request with RAG, which
\* retrieves nothing, and in basic mode sends the refusal prompt and, once the
\* model has replied, responds with status 200 and no sources.
C13_MissingDocument ==
  pdfFile = NoFile =>
    /\ pdfText = Null
    /\ pdfChunks = <<>>
    /\ \A r \in Req :
         (req[r].useRAG /\ req[r].res.status # 400) =>
           /\ req[r].pc # "pdfParse"
           /\ req[r].pc \in {"loadPDF", "agent", "invoke", "saveContext", "done"} =>
                req[r].pdfResult = PdfNotFound
           /\ req[r].pc \in {"agent", "invoke", "saveContext", "done"} =>
                /\ req[r].sources = <<>>
                /\ req[r].mode = "basic" =>
                     /\ req[r].messages # <<>>
                     /\ req[r].messages[1].content = RefusalPrompt
                     /\ (req[r].pc = "done" /\ req[r].response # <<>>) =>
                          req[r].res.status = 200 /\ req[r].res.sources = <<>>

\* a basic-mode request with RAG succeeded without the file
C13_Witness ==
  /\ pdfFile = NoFile
  /\ \E r \in Req :
       /\ req[r].pc = "done" /\ req[r].res.status = 200
       /\ req[r].useRAG /\ req[r].mode = "basic"
\* C14: a step of an agent-mode request leaves the document text and the chunk
\* list as they were.
C14_AgentBypassesRAG ==
  [][\A r \in Req :
       (req'[r].mode = "agent" /\ req'[r] # req[r])
         => pdfText' = pdfText /\ pdfChunks' = pdfChunks]_vars
\* the term stands in s at position i
OccursAt(term, s, i) ==
  i + Len(term) - 1 <= Len(s) /\ SubSeq(s, i, i + Len(term) - 1) = term

RECURSIVE LiteralCount(_, _, _)
\* the occurrences of a non-empty term in s from position from on, counted left
\* to right without overlap
LiteralCount(term, s, from) ==
  IF \E i \in from..Len(s) : OccursAt(term, s, i)
  THEN LET first == CHOOSE i \in from..Len(s) :
                      OccursAt(term, s, i) /\ \A j \in from..(i - 1) : ~OccursAt(term, s, j)
       IN  1 + LiteralCount(term, s, first + Len(term))
  ELSE 0

RECURSIVE LiteralScore(_, _, _)
LiteralScore(terms, i, s) ==
  IF i > Len(terms) THEN 0
  ELSE (IF terms[i] = <<>> THEN Len(s) + 1 ELSE LiteralCount(terms[i], s, 1))
       + LiteralScore(terms, i + 1, s)

\* C15: a request with RAG whose document is loaded gets past the scoring, whatever
\* characters its terms hold, and every chunk's score is the number of literal
\* occurrences of the terms in the lower-cased chunk.
C15_LiteralScore ==
  \A r \in Req :
    (req[r].useRAG /\ req[r].res.status # 400
       /\ req[r].pc \in {"agent", "invoke", "saveContext", "done"})
      => /\ req[r].mode = "basic" => req[r].messages # <<>>
         /\ \A i \in DOMAIN pdfChunks :
              Score(pdfChunks[i], QueryTerms(req[r].userMessage.val))
                = LiteralScore(QueryTerms(req[r].userMessage.val), 1,
                               toLowerCase(pdfChunks[i]))
\* a load has completed and no call of loadPDF is waiting for pdfParse
LoadedAndQuiet ==
  /\ pdfText # Null /\ pdfText # <<>>
  /\ \A r \in Req : req[r].pc # "pdfParse"

\* C16: once a load of a non-empty document has completed and no call is in
\* flight, every step leaves the document text and the chunk list as they are, and
\* every call of loadPDF returns the cached text without parsing again.
C16_CachedLoad ==
  [][LoadedAndQuiet =>
       /\ pdfText' = pdfText
       /\ pdfChunks' = pdfChunks
       /\ \A r \in Req :
            (req[r].pc = "loadMemoryVariables" /\ req'[r] # req[r] /\ req'[r].useRAG)
              => req'[r].pc = "loadPDF" /\ req'[r].pdfResult = pdfText]_vars

\* the document was chunked once and two requests got its text from loadPDF
C16_Witness ==
  /\ pdfText # Null /\ pdfText # <<>>
  /\ pdfChunks = ChunkText(pdfText, <<>>)
  /\ \A r \in Req : req[r].pc = "done" /\ req[r].pdfResult = pdfText

C18_NoEmptyChunk == \A i \in DOMAIN pdfChunks : pdfChunks[i] # <<>>

\* the query consists of stripped punctuation characters and white space
OnlyPunctuation(query) ==
  \A i \in DOMAIN query : query[i] \in Punctuation \cup WhiteSpace

\* C19: no term a received query is scored with is empty, and a query of
\* punctuation only retrieves nothing.
C19_NoEmptyTerm ==
  \A r \in Req :
    (req[r].userMessage.type = "string" /\ req[r].userMessage.val # <<>>) =>
      /\ \A i \in DOMAIN QueryTerms(req[r].userMessage.val) :
           QueryTerms(req[r].userMessage.val)[i] # <<>>
      /\ (OnlyPunctuation(req[r].userMessage.val) /\ PastRetrieval(r)) =>
           req[r].sources = <<>>

\* C20: a step changes a session's memory only if it is a step of a request with
\* that session id; a memory that exists is kept, its history only grows.
C20_SessionsIsolated ==
  [][\A id \in SessionIds :
       /\ sessionMemories[id].created =>
            /\ sessionMemories'[id].created
            /\ IsPrefix(sessionMemories[id].chatHistory, sessionMemories'[id].chatHistory)
       /\ sessionMemories'[id] # sessionMemories[id] =>
            /\ \E r \in Req : req'[r] # req[r] /\ req'[r].sessionId = id
            /\ \A r \in Req : req'[r].sessionId # id => req'[r] = req[r]]_vars

\* each of the two sessions holds the turn of one request
C20_Witness ==
  /\ \A id \in SessionIds : sessionMemories[id].created /\ Len(History(id)) = 2
  /\ History("default")[1].by # History("s1")[1].by
====
